---- MODULE Spec2Model ----
(***************************************************************************)
(* State-machine model of sessionRpcServer (session_rpcserver.go): the     *)
(* RPC handlers AddSession and RevokeSession, resumeSession with the       *)
(* per-session watcher goroutine it spawns, and stop().  Every call into   *)
(* the session store (s.db) or the tunnel (s.sessionServer) is one atomic  *)
(* step; handlers of different calls and the watchers interleave freely.   *)
(***************************************************************************)
EXTENDS Integers, Sequences, FiniteSets, TLC

\* ---- bounds ----
NumProcs == 2       \* concurrent RPC / startup callers
MaxKeys == 1        \* session keys that can exist (stored + added)
NumStored == 1      \* most sessions already in the store at construction
MaxTime == 1        \* clock values 0..MaxTime
MaxStops == 2       \* stop() invocations begun after this many returned: none

Procs == 1..NumProcs
Keys == 1..MaxKeys
Times == 0..MaxTime

\* ---- session.Type / session.State and the litrpc enums ----
SessionTypes == {"TypeMacaroonReadonly", "TypeMacaroonAdmin",
                 "TypeMacaroonCustom", "TypeUIPassword"}
SessionStates == {"StateCreated", "StateInUse", "StateRevoked", "StateExpired"}
RPCTypes == {"TYPE_MACAROON_READONLY", "TYPE_MACAROON_ADMIN",
             "TYPE_MACAROON_CUSTOM", "TYPE_UI_PASSWORD", "TYPE_UNKNOWN"}

\* unmarshalRPCType: "" stands for the error return.
unmarshalRPCType(typ) ==
    CASE typ = "TYPE_MACAROON_READONLY" -> "TypeMacaroonReadonly"
      [] typ = "TYPE_MACAROON_ADMIN" -> "TypeMacaroonAdmin"
      [] typ = "TYPE_MACAROON_CUSTOM" -> "TypeMacaroonCustom"
      [] typ = "TYPE_UI_PASSWORD" -> "TypeUIPassword"
      [] OTHER -> ""

\* marshalRPCType: "" stands for the error return.
marshalRPCType(typ) ==
    CASE typ = "TypeMacaroonReadonly" -> "TYPE_MACAROON_READONLY"
      [] typ = "TypeMacaroonAdmin" -> "TYPE_MACAROON_ADMIN"
      [] typ = "TypeMacaroonCustom" -> "TYPE_MACAROON_CUSTOM"
      [] typ = "TypeUIPassword" -> "TYPE_UI_PASSWORD"
      [] OTHER -> ""

\* marshalRPCState: "" stands for the error return.
marshalRPCState(state) ==
    CASE state = "StateCreated" -> "STATE_CREATED"
      [] state = "StateInUse" -> "STATE_IN_USE"
      [] state = "StateRevoked" -> "STATE_REVOKED"
      [] state = "StateExpired" -> "STATE_EXPIRED"
      [] OTHER -> ""

\* marshalRPCSession succeeds iff both enum conversions succeed.
marshalRPCSessionOk(sess) ==
    marshalRPCState(sess.state) # "" /\ marshalRPCType(sess.type) # ""

VARIABLES
    now,         \* time.Now(), in whole ticks
    store,       \* s.db: local key -> state of the stored session record
    live,        \* s.sessionServer: keys with a running tunnel session
    closed,      \* keys whose closed-notification channel is ready
    quit,        \* s.quit has been closed
    closeCount,  \* number of close(s.quit) executions
    waitCount,   \* number of s.wg.Wait() returns
    wg,          \* s.wg counter
    once,        \* s.stopOnce: "fresh", "running", "done"
    calls,       \* per caller: the handler invocation in progress
    last,        \* the handler invocation that returned last
    watchers,    \* per key: the watcher goroutines spawned for it so far
    nextKey,     \* next key session.NewSession generates
    pending,     \* stored keys the startup pass has yet to hand to resumeSession
    stopReturned \* number of stop() invocations that have returned

vars == <<now, store, live, closed, quit, closeCount, waitCount, wg, once,
          calls, last, watchers, nextKey, pending, stopReturned>>

NoSess == [state |-> "", type |-> "", expiry |-> 0]

\* One handler invocation: op is the handler, pc its position, key the
\* session key it works on, typ/expiry the request's type and expiry and at
\* the value of time.Now() in AddSession's expiry check, sess the in-memory
\* session it works on, rat the value of time.Now() in resumeSession's expiry
\* check, rret the return of resumeSession ("nil"/"err"), ret the return of
\* the handler ("ok"/"err"), trace the collaborator calls it has made.
IdleCall == [op |-> "", pc |-> "idle", key |-> 0, typ |-> "", expiry |-> 0,
             at |-> 0, sess |-> NoSess, rat |-> 0, rret |-> "", ret |-> "",
             trace |-> <<>>]

Ev(c, ok) == [call |-> c, ok |-> ok]

Free(p) == calls[p].pc = "idle"

\* The invocation c of caller p returns: it is recorded in last and the
\* caller is free again.
Return(p, c) ==
    /\ calls' = [calls EXCEPT ![p] = IdleCall]
    /\ last' = [c EXCEPT !.pc = "done"]

Init ==
    /\ now = 0
    /\ \E n \in 0..NumStored :
          /\ store \in [1..n -> SessionStates]
          /\ pending = 1..n
          /\ nextKey = n + 1
    /\ live = {}
    /\ closed = {}
    /\ quit = FALSE
    /\ closeCount = 0
    /\ waitCount = 0
    /\ wg = 0
    /\ once = "fresh"
    /\ calls = [p \in Procs |-> IdleCall]
    /\ last = IdleCall
    /\ watchers = [k \in Keys |-> <<>>]
    /\ stopReturned = 0

\* The clock advances.
Tick ==
    /\ now < MaxTime
    /\ now' = now + 1
    /\ UNCHANGED <<store, live, closed, quit, closeCount, waitCount, wg, once,
                   calls, last, watchers, nextKey, pending, stopReturned>>

\* ---- collaborators: each operation is the set of its possible outcomes ----

\* The store keeps whole session records; the core writes a record once and
\* afterwards only changes its state, and type and expiry of a record never
\* change, so store holds the state and the invocations and watchers that
\* work on a session carry its type and expiry.

\* s.db.StoreSession(sess): storage failure, or the record is written.
DbStoreSession(k, sess) ==
    { [ok |-> FALSE, store |-> store],
      [ok |-> TRUE, store |-> (k :> sess.state) @@ store] }

\* s.db.RevokeSession(key): fails on an unknown key or on a storage failure,
\* otherwise the record's state becomes Revoked.
DbRevokeSession(k) ==
    IF k \notin DOMAIN store
    THEN { [ok |-> FALSE, store |-> store] }
    ELSE { [ok |-> FALSE, store |-> store],
           [ok |-> TRUE, store |-> [store EXCEPT ![k] = "StateRevoked"]] }

\* s.sessionServer.StartSession: error, or the session is live and a fresh
\* closed-notification is handed out.
TunnelStartSession(k) ==
    { [ok |-> FALSE, live |-> live, closed |-> closed],
      [ok |-> TRUE, live |-> live \cup {k}, closed |-> closed \ {k}] }

\* s.sessionServer.StopSession: on a live session it either ends the tunnel
\* (the closed-notification becomes ready) or fails; on a session that is
\* not live it changes nothing and may report an error.
TunnelStopSession(k) ==
    IF k \in live
    THEN { [ok |-> FALSE, live |-> live, closed |-> closed],
           [ok |-> TRUE, live |-> live \ {k}, closed |-> closed \cup {k}] }
    ELSE { [ok |-> FALSE, live |-> live, closed |-> closed],
           [ok |-> TRUE, live |-> live, closed |-> closed] }

\* The tunnel of a live session ends on its own (peer disconnect).
TunnelClose(k) ==
    /\ k \in live
    /\ live' = live \ {k}
    /\ closed' = closed \cup {k}
    /\ UNCHANGED <<now, store, quit, closeCount, waitCount, wg, once, calls,
                   last, watchers, nextKey, pending, stopReturned>>

\* ---- stop() ----

\* Faulty variant of StopOnceRuns: stop() without the Once, every caller
\* closes s.quit.
StopOnceAlways(st) == TRUE

\* sync.Once: Do runs its function only for the first caller.
StopOnceRuns(st) == st = "fresh"

StopCall == [IdleCall EXCEPT !.op = "stop", !.ret = "ok"]

\* stop(), entry: the first caller closes s.quit and goes on to s.wg.Wait();
\* a caller arriving while the first is still inside Do blocks on the Once;
\* a caller arriving after Do completed returns at once.
StopBegin(p) ==
    /\ Free(p)
    /\ stopReturned < MaxStops
    /\ IF StopOnceRuns(once)
       THEN /\ once' = "running"
            /\ quit' = TRUE
            /\ closeCount' = closeCount + 1
            /\ calls' = [calls EXCEPT ![p] = [StopCall EXCEPT !.pc = "wait"]]
            /\ UNCHANGED <<last, stopReturned>>
       ELSE /\ UNCHANGED <<once, quit, closeCount>>
            /\ IF once = "done"
               THEN /\ Return(p, StopCall)
                    /\ stopReturned' = stopReturned + 1
               ELSE /\ calls' = [calls EXCEPT ![p] =
                                   [StopCall EXCEPT !.pc = "once"]]
                    /\ UNCHANGED <<last, stopReturned>>
    /\ UNCHANGED <<now, store, live, closed, waitCount, wg, watchers, nextKey,
                   pending>>

\* s.wg.Wait() returns once the counter is zero; Do completes, stop returns.
StopWait(p) ==
    /\ calls[p].pc = "wait"
    /\ wg = 0
    /\ once' = "done"
    /\ waitCount' = waitCount + 1
    /\ Return(p, calls[p])
    /\ stopReturned' = stopReturned + 1
    /\ UNCHANGED <<now, store, live, closed, quit, closeCount, wg, watchers,
                   nextKey, pending>>

\* A caller blocked on the Once returns when the first caller's Do completed.
StopUnblock(p) ==
    /\ calls[p].pc = "once"
    /\ once = "done"
    /\ Return(p, calls[p])
    /\ stopReturned' = stopReturned + 1
    /\ UNCHANGED <<now, store, live, closed, quit, closeCount, waitCount, wg,
                   once, watchers, nextKey, pending>>

\* ---- AddSession ----

\* AddSession: time.Now().After(expiry) rejects the request.
ExpiryRejected(t, expiry) == t > expiry

\* AddSession: the session types LiT accepts.
TypeSupported(typ) ==
    typ \in {"TypeUIPassword", "TypeMacaroonAdmin", "TypeMacaroonReadonly"}

\* Faulty variant of Returned: AddSession drops the error of resumeSession.
ReturnedSwallow(c, rerr) == [c EXCEPT !.rret = rerr, !.ret = "ok"]

\* The invocation c once resumeSession has returned rerr ("nil"/"err"):
\* AddSession wraps the error, else marshals the session; the startup pass
\* gets resumeSession's own return.
Returned(c, rerr) ==
    [c EXCEPT !.rret = rerr,
              !.ret = IF rerr = "err" THEN "err"
                      ELSE IF c.op = "AddSession" /\ ~marshalRPCSessionOk(c.sess)
                           THEN "err" ELSE "ok"]

\* AddSession up to the call of resumeSession: validate expiry and type,
\* create the session (fresh key, state Created), persist it.
AddSession(p, rpcTyp, expiry) ==
    /\ Free(p)
    /\ LET typ == unmarshalRPCType(rpcTyp)
           c == [IdleCall EXCEPT !.op = "AddSession", !.typ = rpcTyp,
                                 !.expiry = expiry, !.at = now]
           failed == [c EXCEPT !.ret = "err"]
       IN IF ExpiryRejected(now, expiry) \/ typ = "" \/ ~TypeSupported(typ)
          THEN /\ Return(p, failed)
               /\ UNCHANGED <<store, nextKey>>
          ELSE \/ \* session.NewSession fails
                  /\ Return(p, failed)
                  /\ UNCHANGED <<store, nextKey>>
               \/ /\ nextKey <= MaxKeys
                  /\ nextKey' = nextKey + 1
                  /\ LET sess == [state |-> "StateCreated", type |-> typ,
                                  expiry |-> expiry]
                         d == [c EXCEPT !.key = nextKey, !.sess = sess]
                     IN \E o \in DbStoreSession(nextKey, sess) :
                          /\ store' = o.store
                          /\ IF o.ok
                             THEN /\ calls' = [calls EXCEPT ![p] =
                                       [d EXCEPT !.pc = "resume",
                                                 !.trace = <<Ev("db.StoreSession", TRUE)>>]]
                                  /\ UNCHANGED last
                             ELSE Return(p, [d EXCEPT !.ret = "err",
                                       !.trace = <<Ev("db.StoreSession", FALSE)>>])
    /\ UNCHANGED <<now, live, closed, quit, closeCount, waitCount, wg, once,
                   watchers, pending, stopReturned>>

\* ---- resumeSession ----

\* Faulty variant of Resumable: only expired sessions are skipped.
ResumableNotExpired(state) == state # "StateExpired"

\* resumeSession: only sessions in state InUse or Created are started.
Resumable(state) == state \in {"StateInUse", "StateCreated"}

\* Faulty variant of Expired: the comparison the wrong way round.
ExpiredInverted(expiry, t) == t < expiry

\* resumeSession: sess.Expiry.Before(time.Now()).
Expired(expiry, t) == expiry < t

\* resumeSession: the types for which the switch builds authData; the
\* macaroon types need the baker.
NeedsBake(typ) == typ \in {"TypeMacaroonAdmin", "TypeMacaroonReadonly"}

\* Faulty variant of HasAuthData: the switch has no default case.
HasAuthDataAll(typ) == TRUE

HasAuthData(typ) == typ = "TypeUIPassword" \/ NeedsBake(typ)

\* Faulty variant of Sweep: the session held in memory is stored again.
SweepStores(k, sess) == DbStoreSession(k, sess)

\* resumeSession: the store call made for an expired session,
\* s.db.RevokeSession(sess.LocalPublicKey).
Sweep(k, sess) == DbRevokeSession(k)

\* Faulty variant of BakeFailed: the baker's error is returned.
BakeFailedHard(typ) == "err"

\* resumeSession: what it returns when s.superMacBaker fails for a session
\* of type typ (logged, return nil).
BakeFailed(typ) == "nil"

\* Faulty variant of StartAborts: the error of StartSession is ignored.
StartNeverAborts(ok) == FALSE

\* resumeSession: a failed s.sessionServer.StartSession ends it with the
\* error.
StartAborts(ok) == ~ok

\* resumeSession(c.sess) for the invocation c of caller p, from entry to the
\* return of StartSession.
ResumeDecide(p, c0) ==
    LET c == [c0 EXCEPT !.rat = now]
        k == c.key
    IN IF ~Resumable(c.sess.state)
       THEN /\ Return(p, Returned(c, "nil"))
            /\ UNCHANGED <<store, live, closed>>
       ELSE IF Expired(c.sess.expiry, now)
       THEN /\ \E o \in Sweep(k, c.sess) :
                 /\ store' = o.store
                 /\ Return(p, Returned([c EXCEPT !.trace =
                                  Append(@, Ev("db.RevokeSession", o.ok))],
                               IF o.ok THEN "nil" ELSE "err"))
            /\ UNCHANGED <<live, closed>>
       ELSE IF ~HasAuthData(c.sess.type)
       THEN /\ Return(p, Returned(c, "nil"))
            /\ UNCHANGED <<store, live, closed>>
       ELSE \/ \* s.superMacBaker fails
               /\ NeedsBake(c.sess.type)
               /\ Return(p, Returned([c EXCEPT !.trace =
                                Append(@, Ev("superMacBaker", FALSE))],
                             BakeFailed(c.sess.type)))
               /\ UNCHANGED <<store, live, closed>>
            \/ \E o \in TunnelStartSession(k) :
                 LET t == IF NeedsBake(c.sess.type)
                          THEN c.trace \o <<Ev("superMacBaker", TRUE),
                                            Ev("StartSession", o.ok)>>
                          ELSE Append(c.trace, Ev("StartSession", o.ok))
                 IN /\ live' = o.live
                    /\ closed' = o.closed
                    /\ IF ~StartAborts(o.ok)
                       THEN /\ calls' = [calls EXCEPT ![p] =
                                 [c EXCEPT !.trace = t, !.pc = "spawn"]]
                            /\ UNCHANGED last
                       ELSE Return(p, Returned([c EXCEPT !.trace = t], "err"))
                    /\ UNCHANGED store

\* AddSession, continued: resumeSession(sess) on the session just stored.
AddResume(p) ==
    /\ calls[p].pc = "resume"
    /\ ResumeDecide(p, calls[p])
    /\ UNCHANGED <<now, quit, closeCount, waitCount, wg, once, watchers,
                   nextKey, pending, stopReturned>>

\* The startup pass hands each session found in the store to resumeSession,
\* once; typ and expiry are the type and expiry of the stored record.
StartupResume(p, k, typ, expiry) ==
    /\ Free(p)
    /\ k \in pending
    /\ pending' = pending \ {k}
    /\ ResumeDecide(p, [IdleCall EXCEPT
                          !.op = "resumeSession", !.key = k,
                          !.sess = [state |-> store[k], type |-> typ,
                                    expiry |-> expiry]])
    /\ UNCHANGED <<now, quit, closeCount, waitCount, wg, once, watchers,
                   nextKey, stopReturned>>

\* The goroutine started for session k: blocked in the select, with a timer
\* set to the session's expiry; late records whether s.quit was already
\* closed when it started.
NewWatcher(k, expiry) ==
    [key |-> k, expiry |-> expiry, pc |-> "select", exit |-> "",
     calls |-> <<>>, late |-> quit]

\* The watchers of session k that have not exited.
Running(k) == {i \in DOMAIN watchers[k] : watchers[k][i].pc # "done"}

\* Faulty variant of Spawned: the watcher is started twice.
SpawnedTwice(k, expiry) == <<NewWatcher(k, expiry), NewWatcher(k, expiry)>>

\* The goroutines resumeSession starts after a successful StartSession.
Spawned(k, expiry) == <<NewWatcher(k, expiry)>>

\* resumeSession after StartSession succeeded: s.wg.Add(1), start the
\* watcher, return nil.
ResumeSpawn(p) ==
    /\ calls[p].pc = "spawn"
    /\ LET c == calls[p]
           new == Spawned(c.key, c.sess.expiry)
       IN /\ wg' = wg + Len(new)
          /\ watchers' = [watchers EXCEPT ![c.key] = @ \o new]
          /\ Return(p, Returned([c EXCEPT !.trace =
                                   Append(@, Ev("spawn", TRUE))], "nil"))
    /\ UNCHANGED <<now, store, live, closed, quit, closeCount, waitCount, once,
                   nextKey, pending, stopReturned>>

\* ---- the watcher goroutine ----

\* Watcher i of session k is blocked in its select.
Selecting(k, i) ==
    /\ i \in DOMAIN watchers[k]
    /\ watchers[k][i].pc = "select"

\* Faulty variant of WatcherQuit: the quit case falls into the store revoke
\* of the timer case.
WatcherQuitRevokes(k, i) ==
    /\ Selecting(k, i)
    /\ quit
    /\ watchers' = [watchers EXCEPT ![k][i].pc = "done", ![k][i].exit = "quit"]
    /\ store' = [store EXCEPT ![k] = "StateRevoked"]
    /\ wg' = wg - 1
    /\ UNCHANGED <<now, live, closed, quit, closeCount, waitCount, once,
                   calls, last, nextKey, pending, stopReturned>>

\* Faulty variant of WatcherQuit: shutdown is a message to the watchers
\* waiting at that moment, so a watcher started afterwards never gets it.
WatcherQuitEdge(k, i) ==
    /\ Selecting(k, i)
    /\ quit
    /\ ~watchers[k][i].late
    /\ watchers' = [watchers EXCEPT ![k][i].pc = "done", ![k][i].exit = "quit"]
    /\ wg' = wg - 1
    /\ UNCHANGED <<now, store, live, closed, quit, closeCount, waitCount, once,
                   calls, last, nextKey, pending, stopReturned>>

\* The select of a watcher, case <-s.quit: exit, s.wg.Done().
WatcherQuit(k, i) ==
    /\ Selecting(k, i)
    /\ quit
    /\ watchers' = [watchers EXCEPT ![k][i].pc = "done", ![k][i].exit = "quit"]
    /\ wg' = wg - 1
    /\ UNCHANGED <<now, store, live, closed, quit, closeCount, waitCount, once,
                   calls, last, nextKey, pending, stopReturned>>

\* case <-sessionClosedSub: exit, s.wg.Done().
WatcherClosed(k, i) ==
    /\ Selecting(k, i)
    /\ k \in closed
    /\ watchers' = [watchers EXCEPT ![k][i].pc = "done",
                                    ![k][i].exit = "closed"]
    /\ wg' = wg - 1
    /\ UNCHANGED <<now, store, live, closed, quit, closeCount, waitCount, once,
                   calls, last, nextKey, pending, stopReturned>>

\* Faulty variant of TimerFired: the timer is set to zero.
TimerFiredAlways(expiry, t) == TRUE

\* Faulty variant of TimerFired: the timer is never delivered.
TimerFiredNever(expiry, t) == FALSE

\* The timer created with time.Until(sess.Expiry) has fired.
TimerFired(expiry, t) == t >= expiry

\* Faulty variant of AfterStop: a failed StopSession ends the watcher.
AfterStopStrict(stopOk) == IF stopOk THEN "revoke" ELSE "done"

\* The timer case after StopSession returned: its error is only logged and
\* the case goes on to the store revoke.
AfterStop(stopOk) == "revoke"

\* Faulty variant of WatcherTimer: a watcher that finds its session already
\* stopped by somebody else ends without StopSession and without the store
\* revoke.
WatcherTimerIfLive(k, i) ==
    /\ Selecting(k, i)
    /\ TimerFired(watchers[k][i].expiry, now)
    /\ IF k \in live
       THEN /\ \E o \in TunnelStopSession(k) :
                 /\ live' = o.live
                 /\ closed' = o.closed
                 /\ watchers' = [watchers EXCEPT
                                   ![k][i].pc = AfterStop(o.ok),
                                   ![k][i].exit = "timer",
                                   ![k][i].calls =
                                       Append(@, Ev("StopSession", o.ok))]
            /\ UNCHANGED wg
       ELSE /\ watchers' = [watchers EXCEPT ![k][i].pc = "done",
                                            ![k][i].exit = "timer"]
            /\ wg' = wg - 1
            /\ UNCHANGED <<live, closed>>
    /\ UNCHANGED <<now, store, quit, closeCount, waitCount, once, calls,
                   last, nextKey, pending, stopReturned>>

\* case <-ticker.C: call StopSession, only logging its error.
WatcherTimer(k, i) ==
    /\ Selecting(k, i)
    /\ TimerFired(watchers[k][i].expiry, now)
    /\ \E o \in TunnelStopSession(k) :
         /\ live' = o.live
         /\ closed' = o.closed
         /\ watchers' = [watchers EXCEPT
                           ![k][i].pc = AfterStop(o.ok),
                           ![k][i].exit = "timer",
                           ![k][i].calls = Append(@, Ev("StopSession", o.ok))]
    /\ UNCHANGED <<now, store, quit, closeCount, waitCount, wg, once, calls,
                   last, nextKey, pending, stopReturned>>

\* Faulty variant of WatcherRevoke: the select sits in a loop, so after the
\* store revoke the watcher waits again instead of ending.
WatcherRevokeLoops(k, i) ==
    /\ i \in DOMAIN watchers[k]
    /\ watchers[k][i].pc = "revoke"
    /\ \E o \in DbRevokeSession(k) :
         /\ store' = o.store
         /\ watchers' = [watchers EXCEPT
                           ![k][i].pc = "select",
                           ![k][i].calls = Append(@, Ev("db.RevokeSession", o.ok))]
    /\ UNCHANGED <<now, live, closed, quit, closeCount, waitCount, wg, once,
                   calls, last, nextKey, pending, stopReturned>>

\* The timer case, continued: call db.RevokeSession, only logging its error,
\* then exit, s.wg.Done().
WatcherRevoke(k, i) ==
    /\ i \in DOMAIN watchers[k]
    /\ watchers[k][i].pc = "revoke"
    /\ \E o \in DbRevokeSession(k) :
         /\ store' = o.store
         /\ watchers' = [watchers EXCEPT
                           ![k][i].pc = "done",
                           ![k][i].calls = Append(@, Ev("db.RevokeSession", o.ok))]
    /\ wg' = wg - 1
    /\ UNCHANGED <<now, live, closed, quit, closeCount, waitCount, once, calls,
                   last, nextKey, pending, stopReturned>>

\* ---- RevokeSession ----

\* Faulty variant of RevokeAborts: the store error is only logged.
RevokeNeverAborts(ok) == FALSE

\* RevokeSession: a failed store revoke returns before the tunnel is touched.
RevokeAborts(ok) == ~ok

\* Faulty variant of RevokeResult: the error of StopSession is returned.
RevokeResultStrict(stopOk) == IF stopOk THEN "ok" ELSE "err"

\* RevokeSession: an error of StopSession is only logged; the call succeeds.
RevokeResult(stopOk) == "ok"

\* RevokeSession up to the store revoke: parse the key, revoke in the store.
\* Key 0 stands for bytes that do not parse as a public key.
RevokeSession(p, k) ==
    /\ Free(p)
    /\ LET c == [IdleCall EXCEPT !.op = "RevokeSession", !.key = k]
       IN IF k = 0
          THEN /\ Return(p, [c EXCEPT !.ret = "err"])
               /\ UNCHANGED store
          ELSE \E o \in DbRevokeSession(k) :
                 LET d == [c EXCEPT !.trace = <<Ev("db.RevokeSession", o.ok)>>]
                 IN /\ store' = o.store
                    /\ IF RevokeAborts(o.ok)
                       THEN Return(p, [d EXCEPT !.ret = "err"])
                       ELSE /\ calls' = [calls EXCEPT ![p] =
                                           [d EXCEPT !.pc = "rstop"]]
                            /\ UNCHANGED last
    /\ UNCHANGED <<now, live, closed, quit, closeCount, waitCount, wg, once,
                   watchers, nextKey, pending, stopReturned>>

\* RevokeSession, continued: StopSession, only logging its error; success.
RevokeStop(p) ==
    /\ calls[p].pc = "rstop"
    /\ \E o \in TunnelStopSession(calls[p].key) :
         /\ live' = o.live
         /\ closed' = o.closed
         /\ Return(p, [calls[p] EXCEPT
                         !.trace = Append(@, Ev("StopSession", o.ok)),
                         !.ret = RevokeResult(o.ok)])
    /\ UNCHANGED <<now, store, quit, closeCount, waitCount, wg, once, watchers,
                   nextKey, pending, stopReturned>>

\* ---- the system ----

\* Most watchers a session can get.
MaxWatchers == 2

WatcherIds == 1..MaxWatchers

Next ==
    \/ Tick
    \/ \E k \in Keys : TunnelClose(k)
    \/ \E p \in Procs : StopBegin(p)
    \/ \E p \in Procs : StopWait(p)
    \/ \E p \in Procs : StopUnblock(p)
    \/ \E p \in Procs, t \in RPCTypes, e \in Times : AddSession(p, t, e)
    \/ \E p \in Procs : AddResume(p)
    \/ \E p \in Procs, k \in Keys, t \in SessionTypes, e \in Times :
         StartupResume(p, k, t, e)
    \/ \E p \in Procs : ResumeSpawn(p)
    \/ \E k \in Keys, i \in WatcherIds : WatcherQuit(k, i)
    \/ \E k \in Keys, i \in WatcherIds : WatcherClosed(k, i)
    \/ \E k \in Keys, i \in WatcherIds : WatcherTimer(k, i)
    \/ \E k \in Keys, i \in WatcherIds : WatcherRevoke(k, i)
    \/ \E p \in Procs, k \in 0..MaxKeys : RevokeSession(p, k)
    \/ \E p \in Procs : RevokeStop(p)

Spec == Init /\ [][Next]_vars

\* Scheduling: a goroutine that can run does run. A resumeSession that got
\* its session started goes on to start the watcher, a watcher takes a case
\* of its select that stays ready, and the collaborator calls of the timer
\* case return. Nothing is assumed about the clock, the tunnel or the
\* callers.
Fairness ==
    /\ \A p \in Procs : WF_vars(ResumeSpawn(p))
    /\ \A k \in Keys, i \in WatcherIds :
          /\ WF_vars(WatcherQuit(k, i))
          /\ WF_vars(WatcherClosed(k, i))
          /\ WF_vars(WatcherTimer(k, i))
          /\ WF_vars(WatcherRevoke(k, i))

FairSpec == Spec /\ Fairness

\* ---- properties ----

\* The collaborator calls made inside resumeSession by the invocation c.
ResumeTrace(c) == IF c.op = "AddSession" THEN Tail(c.trace) ELSE c.trace

\* resumeSession ran to its return in the invocation last.
ResumeReturned == last.rret # ""

Range(t) == {t[i] : i \in DOMAIN t}

\* The names of the calls in a trace.
CallNames(t) == {t[i].call : i \in DOMAIN t}

AllWatchers == {<<k, i>> \in Keys \X WatcherIds : i \in DOMAIN watchers[k]}

\* C1: shutdown is idempotent: however many stop() invocations are made,
\* one after another or concurrently, s.quit is closed exactly once (never a
\* second close), s.wg.Wait() is passed once, no invocation fails, and every
\* invocation that has returned leaves the same end state: signal fired and
\* the Once completed.
StopIdempotent ==
    /\ closeCount <= 1
    /\ waitCount <= 1
    /\ quit <=> closeCount = 1
    /\ stopReturned > 0 => quit /\ once = "done" /\ waitCount = 1
    /\ last.op = "stop" => last.ret = "ok" /\ last.trace = <<>>

\* Two stop() invocations have returned.
StopTwiceWitness == stopReturned >= 2 /\ last.op = "stop"

\* No watcher is running and no resumeSession is about to start one.
NoWatcherLeft ==
    /\ \A k \in Keys : Running(k) = {}
    /\ \A p \in Procs : calls[p].pc # "spawn"

\* C2: shutdown is a hard barrier: in every interleaving with AddSession and
\* resumeSession, a stop() invocation returns only when no watcher is running
\* or still to run.
StopIsBarrier == [][stopReturned' > stopReturned => NoWatcherLeft']_vars

\* C3 as stated: every session that is live in the tunnel has exactly one
\* running watcher.
OneWatcherWhileLive ==
    \A k \in Keys : k \in live => Cardinality(Running(k)) = 1

\* Session k is between the return of StartSession and the start of its
\* watcher in some resumeSession.
Spawning(k) == \E p \in Procs : calls[p].pc = "spawn" /\ calls[p].key = k

\* A watcher of session k took the timer case.
TimerTaken(k) == \E i \in DOMAIN watchers[k] : watchers[k][i].exit = "timer"

\* C3, amended: a session never has two running watchers, a watcher runs
\* only for a session that was started, and a session that is live in the
\* tunnel has exactly one running watcher from the return of resumeSession
\* until shutdown is signalled or its watcher takes the timer case.
OneWatcherUntilShutdownOrExpiry ==
    \A k \in Keys :
        /\ Cardinality(Running(k)) <= 1
        /\ Running(k) # {} => k \in live \cup closed
        /\ (k \in live /\ ~Spawning(k) /\ ~quit /\ ~TimerTaken(k))
              => Cardinality(Running(k)) = 1

\* A live session is watched by its one watcher, before any shutdown.
OneWatcherWitness ==
    \E k \in Keys : k \in live /\ ~quit /\ Cardinality(Running(k)) = 1
                    /\ last.op = "AddSession" /\ last.ret = "ok"

\* C4: AddSession rejects invalid input before any mutation: a request whose
\* expiry is not strictly after the time of the call, or whose type is not
\* UIPassword, MacaroonAdmin or MacaroonReadonly, returns an error and makes
\* no store write, no tunnel start and no watcher.
AddSessionRejectsInvalid ==
    (/\ last.op = "AddSession"
     /\ \/ last.expiry <= last.at
        \/ ~TypeSupported(unmarshalRPCType(last.typ)))
        => /\ last.ret = "err"
           /\ Ev("db.StoreSession", TRUE) \notin Range(last.trace)
           /\ "StartSession" \notin CallNames(last.trace)
           /\ "spawn" \notin CallNames(last.trace)

\* C5: RevokeSession revokes in the store before it touches the tunnel: a
\* call whose store revoke failed returns an error without a StopSession
\* call, and StopSession is called only after a successful store revoke.
RevokeStoreFirst ==
    /\ last.op = "RevokeSession" =>
          /\ last.ret = "err" => "StopSession" \notin CallNames(last.trace)
          /\ "StopSession" \in CallNames(last.trace) =>
                /\ Len(last.trace) = 2
                /\ last.trace[1] = Ev("db.RevokeSession", TRUE)
                /\ last.trace[2].call = "StopSession"
          /\ (last.trace # <<>> /\ ~last.trace[1].ok) =>
                last.ret = "err" /\ Len(last.trace) = 1
    /\ \A p \in Procs : calls[p].pc = "rstop" =>
          calls[p].trace = <<Ev("db.RevokeSession", TRUE)>>

\* RevokeSession on a key the store does not know has returned an error.
RevokeUnknownWitness ==
    /\ last.op = "RevokeSession"
    /\ last.key \in Keys \ DOMAIN store
    /\ last.ret = "err"
    /\ last.trace = <<Ev("db.RevokeSession", FALSE)>>

\* C6: the tunnel stop of RevokeSession is best-effort: whenever the store
\* revoke succeeded the call returns success and the session is Revoked in
\* the store, whether StopSession succeeded or failed.
RevokeStopBestEffort ==
    (/\ last.op = "RevokeSession"
     /\ last.trace # <<>>
     /\ last.trace[1].ok)
        => /\ last.ret = "ok"
           /\ Len(last.trace) = 2
           /\ last.key \in DOMAIN store
           /\ store[last.key] = "StateRevoked"

\* RevokeSession returned success although StopSession failed.
RevokeStopFailedWitness ==
    /\ last.op = "RevokeSession"
    /\ Len(last.trace) = 2
    /\ last.trace[2] = Ev("StopSession", FALSE)
    /\ last.ret = "ok"

\* C7: resuming a session whose state is Revoked or Expired is a no-op
\* whatever its type and expiry: no store write, no tunnel start, no watcher
\* and no error.
ResumeSkipsTerminal ==
    (/\ ResumeReturned
     /\ last.sess.state \in {"StateRevoked", "StateExpired"})
        => /\ ResumeTrace(last) = <<>>
           /\ last.rret = "nil"
           /\ last.ret = "ok"

\* A Revoked session whose expiry is still ahead was resumed.
ResumeTerminalWitness ==
    /\ last.op = "resumeSession"
    /\ last.sess.state = "StateRevoked"
    /\ last.sess.type = "TypeUIPassword"
    /\ last.sess.expiry > last.rat
    /\ last.rret = "nil"

\* What resumeSession does with a session it finds expired: one store
\* revoke, no tunnel start, no watcher; on success the session is Revoked in
\* the store and nil is returned, on failure the error is returned.
SweptToRevoked ==
    /\ Len(ResumeTrace(last)) = 1
    /\ ResumeTrace(last)[1].call = "db.RevokeSession"
    /\ IF ResumeTrace(last)[1].ok
       THEN /\ last.rret = "nil"
            /\ last.key \in DOMAIN store
            /\ store[last.key] = "StateRevoked"
       ELSE last.rret = "err"

\* C8 as stated: resuming a session in state Created or InUse whose expiry
\* is not after the current time (expiry <= now) revokes it in the store and
\* starts nothing.
ResumeSweepsNotAfterNow ==
    (/\ ResumeReturned
     /\ Resumable(last.sess.state)
     /\ last.sess.expiry <= last.rat)
        => SweptToRevoked

\* C8, amended: resuming a session in state Created or InUse whose expiry is
\* strictly before the current time (expiry < now) marks it Revoked in the
\* store, makes no tunnel start call and spawns no watcher; it returns no
\* error unless the store revoke itself fails, in which case that failure is
\* returned.
ResumeSweepsExpired ==
    (/\ ResumeReturned
     /\ Resumable(last.sess.state)
     /\ last.sess.expiry < last.rat)
        => SweptToRevoked

\* An expired session was swept to Revoked by resumeSession.
ResumeSweepWitness ==
    /\ ResumeReturned
    /\ Resumable(last.sess.state)
    /\ last.sess.expiry < last.rat
    /\ last.rret = "nil"
    /\ store[last.key] = "StateRevoked"

\* C9: AddSession persists before it resumes and does not roll back: a
\* failed store write ends the call with an error before any tunnel start or
\* watcher; if the store write succeeded and resumeSession failed the call
\* returns an error, the record stays in the store and the session has no
\* watcher.
AddPersistsThenResumes ==
    /\ (last.op = "AddSession" /\ last.trace # <<>>) =>
          /\ last.trace[1].call = "db.StoreSession"
          /\ ~last.trace[1].ok => last.ret = "err" /\ Len(last.trace) = 1
          /\ (last.trace[1].ok /\ last.rret = "err") =>
                /\ last.ret = "err"
                /\ last.key \in DOMAIN store
                /\ watchers[last.key] = <<>>
                /\ "spawn" \notin CallNames(last.trace)
    /\ \A p \in Procs :
          (calls[p].op = "AddSession" /\ calls[p].pc # "idle") =>
              /\ calls[p].trace[1] = Ev("db.StoreSession", TRUE)
              /\ calls[p].key \in DOMAIN store

\* AddSession returned an error after the record was stored.
AddResumeFailedWitness ==
    /\ last.op = "AddSession"
    /\ last.ret = "err"
    /\ last.rret = "err"
    /\ last.trace[1] = Ev("db.StoreSession", TRUE)
    /\ last.key \in DOMAIN store

\* C10: a watcher that takes the timer case calls StopSession first and
\* db.RevokeSession second, the revoke also after a failed StopSession, and
\* exits after the revoke; a watcher on another case calls neither; and no
\* step of a watcher changes what any caller is doing or was returned.
WatcherCallsInOrder ==
    \A w \in AllWatchers :
        LET x == watchers[w[1]][w[2]]
        IN CASE x.pc = "select" -> x.calls = <<>> /\ x.exit = ""
             [] x.pc = "revoke" -> /\ x.exit = "timer"
                                   /\ Len(x.calls) = 1
                                   /\ x.calls[1].call = "StopSession"
             [] x.pc = "done" ->
                   IF x.exit = "timer"
                   THEN /\ Len(x.calls) = 2
                        /\ x.calls[1].call = "StopSession"
                        /\ x.calls[2].call = "db.RevokeSession"
                   ELSE x.calls = <<>>
             [] OTHER -> FALSE

WatcherStepsSilent ==
    (\E w \in AllWatchers : watchers'[w[1]][w[2]] # watchers[w[1]][w[2]])
        => UNCHANGED <<calls, last>>

WatcherExpiryPath == []WatcherCallsInOrder /\ [][WatcherStepsSilent]_vars

\* A watcher revoked in the store after its StopSession had failed.
WatcherExpiryWitness ==
    \E w \in AllWatchers :
        LET x == watchers[w[1]][w[2]]
        IN /\ x.pc = "done"
           /\ x.exit = "timer"
           /\ x.calls[1] = Ev("StopSession", FALSE)
           /\ x.calls[2].call = "db.RevokeSession"

\* The watcher i of session k, and the number of its calls named c.
W(w) == watchers[w[1]][w[2]]

CallCount(t, c) == Cardinality({j \in DOMAIN t : t[j].call = c})

\* C11: a watcher that exits on the shutdown signal or on the session's
\* closed-notification makes no store mutation and no tunnel stop call: the
\* exit leaves the store and the tunnel's live set as they were and the
\* watcher has made no collaborator call.
QuietExitStep ==
    \A w \in AllWatchers :
        (W(w).pc = "select" /\ W(w)'.exit \in {"quit", "closed"})
            => /\ UNCHANGED <<store, live, closed>>
               /\ W(w)'.pc = "done"
               /\ W(w)'.calls = <<>>

WatcherQuietExit == [][QuietExitStep]_vars

\* Shutdown drained the watcher of a session that is still live, not
\* revoked, and whose expiry is still ahead.
QuietExitWitness ==
    \E w \in AllWatchers :
        /\ stopReturned > 0
        /\ W(w).pc = "done"
        /\ W(w).exit = "quit"
        /\ W(w).expiry > now
        /\ w[1] \in live
        /\ store[w[1]] = "StateCreated"

\* The running watchers, counted over all sessions.
RECURSIVE RunningUpTo(_)
RunningUpTo(n) ==
    IF n = 0 THEN 0 ELSE Cardinality(Running(n)) + RunningUpTo(n - 1)

\* C12: a watcher acts on exactly one of its three triggers and never loops:
\* in its whole life it makes at most one StopSession call and at most one
\* store RevokeSession call, once it has exited it does nothing more, the
\* trigger it acted on never changes, and it decrements the join set exactly
\* once (the counter is the number of watchers that have not exited).
WatcherOneShot ==
    /\ wg = RunningUpTo(MaxKeys)
    /\ \A w \in AllWatchers :
          /\ CallCount(W(w).calls, "StopSession") <= 1
          /\ CallCount(W(w).calls, "db.RevokeSession") <= 1
          /\ W(w).pc = "done" <=> W(w).exit \in {"quit", "closed"}
                                   \/ (W(w).exit = "timer" /\ Len(W(w).calls) = 2)
          /\ W(w).pc # "done" => W(w).exit \in {"", "timer"}

WatcherNeverResumes ==
    \A w \in AllWatchers :
        /\ W(w).pc = "done" => W(w)' = W(w)
        /\ W(w).exit # "" => W(w)'.exit = W(w).exit

WatcherActsOnce == []WatcherOneShot /\ [][WatcherNeverResumes]_vars

\* A watcher went through the timer case and the join set is empty again.
WatcherActsOnceWitness ==
    \E w \in AllWatchers :
        /\ W(w).pc = "done"
        /\ W(w).exit = "timer"
        /\ CallCount(W(w).calls, "StopSession") = 1
        /\ CallCount(W(w).calls, "db.RevokeSession") = 1
        /\ wg = 0

\* Watcher i of session k has exited.
Exited(k, i) == i \in DOMAIN watchers[k] /\ watchers[k][i].pc = "done"

\* C13: the shutdown signal is a level: once s.quit is closed every watcher
\* eventually exits, with no need for its timer or its closed-notification
\* to fire, and a resumeSession that got its session started after the
\* signal still starts its watcher, which then exits too.
ShutdownReachesAll ==
    /\ \A k \in Keys, i \in WatcherIds :
          (quit /\ i \in DOMAIN watchers[k]) ~> Exited(k, i)
    /\ \A p \in Procs, k \in Keys :
          (quit /\ calls[p].pc = "spawn" /\ calls[p].key = k)
              ~> (\E i \in WatcherIds : Exited(k, i) /\ watchers[k][i].late)

\* A watcher started after the signal exited on it, with its timer not yet
\* due and its session still live.
LateWatcherWitness ==
    \E w \in AllWatchers :
        /\ W(w).late
        /\ W(w).pc = "done"
        /\ W(w).exit = "quit"
        /\ W(w).expiry > now
        /\ w[1] \in live
        /\ last.op = "AddSession"

\* resumeSession returned in the invocation last after the baker failed.
BakeFailedLast ==
    ResumeReturned /\ Ev("superMacBaker", FALSE) \in Range(ResumeTrace(last))

BakeSkipState ==
    BakeFailedLast =>
        /\ last.sess.type \in {"TypeMacaroonAdmin", "TypeMacaroonReadonly"}
        /\ last.rret = "nil"
        /\ ResumeTrace(last) = <<Ev("superMacBaker", FALSE)>>
        /\ watchers[last.key] = <<>>
        /\ last.key \notin live
        /\ last.op = "AddSession" =>
              /\ last.ret = "ok"
              /\ last.key \in DOMAIN store

BakeSkipStep ==
    (last' # last /\ BakeFailedLast') =>
        UNCHANGED <<store, live, closed, wg, watchers>>

\* C14: when s.superMacBaker fails for a MacaroonAdmin or MacaroonReadonly
\* session, resumeSession returns nil having called neither StartSession nor
\* the store and having started no watcher, so AddSession returns success
\* for a session that is in the store but not live.
BakeFailureSoftSkip == []BakeSkipState /\ [][BakeSkipStep]_vars

\* AddSession returned success although the baker failed: the session is
\* stored in state Created, not live, with no watcher.
BakeFailedWitness ==
    /\ BakeFailedLast
    /\ last.op = "AddSession"
    /\ last.ret = "ok"
    /\ store[last.key] = "StateCreated"
    /\ last.key \notin live
    /\ wg = 0

StartThenSpawnState ==
    /\ ResumeReturned =>
          /\ Ev("StartSession", FALSE) \in Range(ResumeTrace(last)) =>
                /\ last.rret = "err"
                /\ "spawn" \notin CallNames(last.trace)
                /\ watchers[last.key] = <<>>
          /\ "spawn" \in CallNames(last.trace) =>
                /\ Ev("StartSession", TRUE) \in Range(ResumeTrace(last))
                /\ last.rret = "nil"
                /\ Len(watchers[last.key]) = 1
    /\ \A p \in Procs :
          calls[p].pc = "spawn" =>
              calls[p].trace[Len(calls[p].trace)] = Ev("StartSession", TRUE)
    /\ \A k \in Keys : watchers[k] # <<>> => k \notin pending

StartThenSpawnStep ==
    /\ (wg' > wg \/ \E k \in Keys : Len(watchers'[k]) # Len(watchers[k])) =>
          \E p \in Procs :
              /\ calls[p].pc = "spawn"
              /\ Ev("StartSession", TRUE) \in Range(calls[p].trace)
              /\ wg' = wg + 1
              /\ Len(watchers'[calls[p].key]) = Len(watchers[calls[p].key]) + 1
              /\ last'.key = calls[p].key
              /\ last'.rret = "nil"
    /\ (/\ last' # last
        /\ last'.rret # ""
        /\ Ev("StartSession", FALSE) \in Range(ResumeTrace(last')))
          => UNCHANGED <<wg, watchers>>

\* C15: the watcher is started and added to s.wg only after StartSession
\* succeeded: a failed StartSession makes resumeSession return the error
\* with s.wg unchanged and no watcher for the session, and after a
\* successful one exactly one watcher is added before resumeSession returns.
StartThenSpawn == []StartThenSpawnState /\ [][StartThenSpawnStep]_vars

\* The startup pass got the error of a failed StartSession: no watcher.
StartFailedWitness ==
    /\ last.op = "resumeSession"
    /\ Ev("StartSession", FALSE) \in Range(last.trace)
    /\ last.rret = "err"
    /\ watchers[last.key] = <<>>
    /\ wg = 0

\* resumeSession returned in the invocation last for a stored session of
\* type MacaroonCustom.
CustomLast ==
    /\ last.op = "resumeSession"
    /\ last.rret # ""
    /\ last.sess.type = "TypeMacaroonCustom"

CustomNotStarted ==
    /\ CallNames(last.trace) \cap {"superMacBaker", "StartSession", "spawn"} = {}
    /\ watchers[last.key] = <<>>
    /\ last.key \notin live

\* C16 as stated: a stored MacaroonCustom session is skipped silently
\* whatever its state and expiry: no StartSession, no watcher, no error.
CustomSkippedSilently == CustomLast => CustomNotStarted /\ last.rret = "nil"

\* C16: a stored MacaroonCustom session is never started and gets no
\* watcher, whatever its state and expiry; resumeSession returns nil for it
\* except when the session is Created or InUse with its expiry passed and
\* the db.RevokeSession of the sweep fails, whose error it returns.
CustomNeverStarted ==
    CustomLast =>
        /\ CustomNotStarted
        /\ last.rret = "err" <=>
              Ev("db.RevokeSession", FALSE) \in Range(last.trace)
        /\ last.trace # <<>> =>
              /\ CallNames(last.trace) = {"db.RevokeSession"}
              /\ last.sess.state \in {"StateCreated", "StateInUse"}
              /\ last.sess.expiry < last.rat

\* A MacaroonCustom session in state Created whose expiry has not passed
\* reached the type switch and was skipped there.
CustomSkippedWitness ==
    /\ CustomLast
    /\ last.sess.state = "StateCreated"
    /\ last.sess.expiry >= last.rat
    /\ last.rret = "nil"
    /\ last.trace = <<>>
    /\ store[last.key] = "StateCreated"

StoreStepForward ==
    \A k \in DOMAIN store :
        /\ k \in DOMAIN store'
        /\ store'[k] # store[k] => store'[k] = "StateRevoked"
        /\ store[k] \in {"StateRevoked", "StateExpired"}
              => store'[k] \in {"StateRevoked", "StateExpired"}

\* C17: no step of AddSession, resumeSession, RevokeSession, a watcher or
\* stop() removes a session from the store or writes Created or InUse over
\* a stored session: the only change made to the state of a stored session
\* is to Revoked, so a Revoked or Expired session stays terminal.
NoWayBack == [][StoreStepForward]_vars

\* resumeSession started a session from its in-memory copy in state Created
\* after the stored record had been revoked; the store still says Revoked.
StartedAfterRevokeWitness ==
    /\ last.op = "AddSession"
    /\ last.sess.state = "StateCreated"
    /\ Ev("StartSession", TRUE) \in Range(last.trace)
    /\ store[last.key] = "StateRevoked"
    /\ watchers[last.key] # <<>>
    /\ watchers[last.key][1].pc = "select"

\* Watcher w took the timer case and RevokeSession has returned for the
\* same session in the invocation last.
ExpiryRacedRevoke(w) ==
    /\ W(w).exit = "timer"
    /\ last.op = "RevokeSession"
    /\ last.key = w[1]

Revoking(p, k) ==
    /\ calls[p].op = "RevokeSession"
    /\ calls[p].pc = "rstop"
    /\ calls[p].key = k

\* Only RevokeSession calls StopSession among the callers; stop() calls
\* no collaborator.
StopCallers ==
    /\ \A p \in Procs :
          /\ "StopSession" \in CallNames(calls[p].trace)
                => calls[p].op = "RevokeSession"
          /\ calls[p].op = "stop" => calls[p].trace = <<>>
    /\ "StopSession" \in CallNames(last.trace) => last.op = "RevokeSession"
    /\ last.op = "stop" => last.trace = <<>>

StopOriginStep ==
    /\ \A w \in AllWatchers :
          ("StopSession" \in CallNames(W(w)'.calls) \ CallNames(W(w).calls))
              => /\ now >= W(w).expiry
                 /\ W(w).pc = "select"
                 /\ UNCHANGED <<calls, last, store>>
    /\ (last' # last /\ "StopSession" \in CallNames(last'.trace))
          => \E p \in Procs : Revoking(p, last'.key) /\ calls'[p] = IdleCall
    /\ \A k \in Keys :
          (k \in live /\ k \notin live') =>
              \/ \E p \in Procs : Revoking(p, k) /\ calls'[p] = IdleCall
              \/ \E i \in DOMAIN watchers[k] :
                     /\ watchers[k][i].pc = "select"
                     /\ watchers'[k][i].exit = "timer"
                     /\ now >= watchers[k][i].expiry
              \/ UNCHANGED <<calls, last, watchers, store>>
    /\ (\/ \E p \in Procs : calls[p].op = "stop" /\ calls'[p] # calls[p]
        \/ \E p \in Procs : calls'[p].op = "stop" /\ calls'[p] # calls[p]
        \/ <<quit, once, waitCount, closeCount, stopReturned>>' #
               <<quit, once, waitCount, closeCount, stopReturned>>)
          => UNCHANGED <<store, live, closed, watchers>>

\* C19: no session is stopped early: StopSession is called for a session
\* only by RevokeSession for that key, after its store revoke, or by the
\* session's watcher in a step taken when the clock has reached the
\* session's expiry; no step of stop() calls StopSession or changes the
\* store.
NoPrematureStop == []StopCallers /\ [][StopOriginStep]_vars

\* A watcher stopped its session at the expiry, the store still showing the
\* session as Created, and the last call to return was a stop().
TimelyStopWitness ==
    \E w \in AllWatchers :
        /\ W(w).calls = <<Ev("StopSession", TRUE)>>
        /\ W(w).expiry = MaxTime
        /\ now = W(w).expiry
        /\ w[1] \notin live
        /\ store[w[1]] = "StateCreated"
        /\ last.op = "stop"

\* A watcher that has exited either saw shutdown or the closed-notification,
\* or made both calls of the timer case.
ExitedProperly ==
    \A w \in AllWatchers :
        W(w).pc = "done" =>
            \/ W(w).exit = "quit" /\ quit
            \/ W(w).exit = "closed"
            \/ /\ W(w).exit = "timer"
               /\ Len(W(w).calls) = 2
               /\ W(w).calls[1].call = "StopSession"
               /\ W(w).calls[2].call = "db.RevokeSession"

\* A watcher leaves the select without a call only when s.quit is closed or
\* the closed-notification of its session is ready.
SilentExitStep ==
    \A w \in AllWatchers :
        (W(w).pc = "select" /\ W(w)'.pc = "done") => quit \/ w[1] \in closed

\* C20: expiry is enforced in the end: once the clock has reached the
\* expiry of a started session, its watcher (already running or about to be
\* started by resumeSession) eventually exits under fair scheduling of the
\* goroutines; and unless s.quit was closed or the closed-notification was
\* ready, it exits only after calling StopSession and then
\* db.RevokeSession.
ExpiryEnforced ==
    /\ \A k \in Keys, i \in WatcherIds :
          (i \in DOMAIN watchers[k] /\ now >= watchers[k][i].expiry)
              ~> Exited(k, i)
    /\ \A p \in Procs, k \in Keys :
          (calls[p].pc = "spawn" /\ calls[p].key = k
              /\ now >= calls[p].sess.expiry)
              ~> (\E i \in WatcherIds : Exited(k, i))
    /\ []ExitedProperly
    /\ [][SilentExitStep]_vars

\* With no shutdown, a watcher whose session expired at the end of the
\* clock's range stopped the session, revoked it in the store and exited.
ExpiryEnforcedWitness ==
    \E w \in AllWatchers :
        /\ ~quit
        /\ W(w).pc = "done"
        /\ W(w).exit = "timer"
        /\ W(w).expiry = MaxTime
        /\ W(w).calls = <<Ev("StopSession", TRUE), Ev("db.RevokeSession", TRUE)>>
        /\ store[w[1]] = "StateRevoked"
        /\ w[1] \notin live
        /\ wg = 0

====
